---- MODULE Spec2Model ----
(***************************************************************************)
(* Model of Research_OpenAI_SDK_Agent/research_agents.py: the Streamlit    *)
(* session state, the save_important_fact tool and the run_research        *)
(* driver.  The agent framework (Runner.run) and the model endpoint are    *)
(* external: each call into them is an in-flight call that may invoke the  *)
(* registered tool, return an output, or raise.                            *)
(***************************************************************************)
EXTENDS Integers, Sequences, FiniteSets, TLC

(* ------------------------------------------------------------------ *)
(* Bounds                                                              *)
(* ------------------------------------------------------------------ *)

\* Tool invocations the framework makes within one triage call.
MaxToolCalls == 3

(* ------------------------------------------------------------------ *)
(* Values                                                              *)
(* ------------------------------------------------------------------ *)

\* Python None / an optional value: <<>> is None, <<x>> is the value x.
None == <<>>

Some(x) == <<x>>

\* Fact texts are character sequences; "a" and "A" differ only in case.
FactTexts == {<<"a">>, <<"A">>, <<"a", "b">>}

\* The source argument: omitted (None), the empty string, or a text.
Sources == {None, Some(""), Some("src1"), Some("src2")}

\* datetime.now() as seconds since local midnight.
ClockReadings == {0, 45296}

\* What the user may have typed into the topic box.
Topics == {"", "AI"}

Titles == {"T1", "T 2"}

\* word_count values the editor's model output may carry.
WordCounts == -1 .. 2

\* The raw structured output of the editor agent, before validation.
RawReports == [title : Titles, word_count : WordCounts]

\* final_output of the triage call: a ResearchPlan, or (after a handoff)
\* the output of another agent, which has no topic attribute.
PlanOutputs == [kind : {"ResearchPlan"}, topic : Topics \ {""}]

OtherOutputs == [kind : {"str"}, topic : {""}]

WARNING == <<"Fact already saved.">>

Confirmation(fact) == <<"Fact saved: ", fact>>

NOT_SPECIFIED == "Not specified"

(* ------------------------------------------------------------------ *)
(* State                                                               *)
(* ------------------------------------------------------------------ *)

VARIABLES
    collected_facts,    \* st.session_state.collected_facts
    research_started,   \* st.session_state.research_started
    research_done,      \* st.session_state.research_done
    report_result,      \* st.session_state.report_result (None or a report)
    research_progress,  \* st.session_state.research_progress
    user_topic,         \* the text in the sidebar's topic input
    pc,                 \* where the script run / run_research stands
    plan_result,        \* run_research's local plan_result.final_output
    editor_result,      \* run_research's local editor_result.final_output
    progress_bar,       \* the value the sidebar's st.progress element shows
    report_panel,       \* the report rendered by the display block, or None
    tool_ret,           \* return value of the latest tool call in flight
    last_call,          \* arguments of the latest tool call in flight
    tool_calls,         \* tool calls made in the current triage call
    triage_calls,       \* Runner.run(triage_agent) calls issued in this run
    editor_calls,       \* Runner.run(editor_agent) calls issued in this run
    progress_trace,     \* values research_progress has taken in this run
    observed,           \* values the progress bar has shown since run start
    prior,              \* the session state the current run started from
    last_validation     \* latest ResearchReport construction of this run

vars == <<collected_facts, research_started, research_done, report_result,
          research_progress, user_topic, pc, plan_result, editor_result,
          progress_bar, report_panel, tool_ret, last_call, tool_calls,
          triage_calls, editor_calls, progress_trace, observed, prior,
          last_validation>>

session == <<collected_facts, research_started, research_done, report_result,
             research_progress>>

\* No script run is executing: the page waits for a widget event.
Stopped == {"idle", "done", "triage_failed", "render_failed", "editor_failed"}

Running == {"triage", "sleep", "editor"}

(* ------------------------------------------------------------------ *)
(* save_important_fact                                                 *)
(* ------------------------------------------------------------------ *)

Pad2(n) == <<n \div 10, n % 10>>

\* datetime.strftime("%H:%M:%S")
strftime(t) == <<Pad2((t \div 3600) % 24), Pad2((t \div 60) % 60), Pad2(t % 60)>>

HasFactLastOnly(facts, fact) ==
    Len(facts) > 0 /\ facts[Len(facts)].fact = fact

\* fact in [entry["fact"] for entry in collected_facts]
HasFact(facts, fact) ==
    \E i \in 1 .. Len(facts) : facts[i].fact = fact

StoredSourceNoneOnly(source) ==
    IF source # None THEN source[1] ELSE NOT_SPECIFIED

\* source or "Not specified": None and the empty string are both falsy.
StoredSource(source) ==
    IF source # None /\ source[1] # "" THEN source[1] ELSE NOT_SPECIFIED

NewRecord(fact, source, now) ==
    [fact |-> fact, source |-> StoredSource(source), timestamp |-> strftime(now)]

FactsAfterSaveRefresh(facts, fact, source, now) ==
    IF HasFact(facts, fact)
    THEN [i \in 1 .. Len(facts) |->
            IF facts[i].fact = fact THEN NewRecord(fact, source, now) ELSE facts[i]]
    ELSE Append(facts, NewRecord(fact, source, now))

\* The list after the call: unchanged on a duplicate, else one record appended.
FactsAfterSave(facts, fact, source, now) ==
    IF HasFact(facts, fact)
    THEN facts
    ELSE Append(facts, NewRecord(fact, source, now))

ToolReturn(facts, fact) ==
    IF HasFact(facts, fact) THEN WARNING ELSE Confirmation(fact)

\* The framework invokes the tool while the triage call is in flight.
save_important_fact(fact, source, now) ==
    /\ pc = "triage"
    /\ tool_calls < MaxToolCalls
    /\ collected_facts' = FactsAfterSave(collected_facts, fact, source, now)
    /\ tool_ret' = ToolReturn(collected_facts, fact)
    /\ last_call' = Some([fact |-> fact, source |-> source])
    /\ tool_calls' = tool_calls + 1
    /\ UNCHANGED <<research_started, research_done, report_result,
                   research_progress, user_topic, pc, plan_result,
                   editor_result, progress_bar, report_panel, triage_calls,
                   editor_calls, progress_trace, observed, prior,
                   last_validation>>

(* ------------------------------------------------------------------ *)
(* ResearchReport                                                      *)
(* ------------------------------------------------------------------ *)

ValidWordCountGe(wc) == wc >= 0

\* Field(..., gt=0)
ValidWordCount(wc) == wc > 0

(* ------------------------------------------------------------------ *)
(* The page: sidebar, run_research, display block                      *)
(* ------------------------------------------------------------------ *)

\* A progress element shows the value it was created with.
Shown(seen, v) == IF seen[Len(seen)] = v THEN seen ELSE Append(seen, v)

\* if research_done and report_result: render the report
DisplayReport(done, report) == IF done /\ report # None THEN report ELSE None

ResetUpdateKeepFacts ==
    [research_started |-> TRUE, research_done |-> FALSE,
     collected_facts |-> collected_facts, report_result |-> None,
     research_progress |-> 0]

ResetUpdateKeepDone ==
    [research_started |-> TRUE, research_done |-> research_done,
     collected_facts |-> <<>>, report_result |-> None,
     research_progress |-> 0]

\* The st.session_state.update(...) that opens run_research.
ResetUpdate ==
    [research_started |-> TRUE, research_done |-> FALSE,
     collected_facts |-> <<>>, report_result |-> None,
     research_progress |-> 0]

Init ==
    /\ collected_facts = <<>>
    /\ research_started = FALSE
    /\ research_done = FALSE
    /\ report_result = None
    /\ research_progress = 0
    /\ user_topic = ""
    /\ pc = "idle"
    /\ plan_result = None
    /\ editor_result = None
    /\ progress_bar = 0
    /\ report_panel = None
    /\ tool_ret = None
    /\ last_call = None
    /\ tool_calls = 0
    /\ triage_calls = 0
    /\ editor_calls = 0
    /\ progress_trace = <<0>>
    /\ observed = <<0>>
    /\ prior = None
    /\ last_validation = None

\* A widget event other than the start button: the script reruns top to
\* bottom, redraws the sidebar and the display block, and skips run_research.
Rerun(topic) ==
    /\ pc \in Stopped
    /\ user_topic' = topic
    /\ progress_bar' = research_progress
    /\ observed' = Shown(observed, research_progress)
    /\ report_panel' = DisplayReport(research_done, report_result)
    /\ UNCHANGED <<session, pc, plan_result, editor_result, tool_ret,
                   last_call, tool_calls, triage_calls, editor_calls,
                   progress_trace, prior, last_validation>>

\* The start button: the script reruns, draws the sidebar from the state the
\* previous run left, enters run_research, resets the state and issues the
\* triage call.
StartRun ==
    /\ pc \in Stopped
    /\ user_topic # ""
    /\ progress_bar' = research_progress
    /\ observed' = <<research_progress>>
    /\ prior' = Some([facts |-> collected_facts # <<>>,
                      report |-> report_result # None,
                      progress |-> research_progress,
                      done |-> research_done])
    /\ research_started' = ResetUpdate.research_started
    /\ research_done' = ResetUpdate.research_done
    /\ collected_facts' = ResetUpdate.collected_facts
    /\ report_result' = ResetUpdate.report_result
    /\ research_progress' = ResetUpdate.research_progress
    /\ progress_trace' = <<ResetUpdate.research_progress>>
    /\ report_panel' = None
    /\ plan_result' = None
    /\ editor_result' = None
    /\ tool_ret' = None
    /\ last_call' = None
    /\ tool_calls' = 0
    /\ last_validation' = None
    /\ triage_calls' = 1
    /\ editor_calls' = 0
    /\ pc' = "triage"
    /\ UNCHANGED user_topic

\* The triage call returns a ResearchPlan: progress 25, the plan is rendered,
\* and the driver sleeps.
TriageReturn(plan) ==
    /\ pc = "triage"
    /\ plan_result' = Some(plan)
    /\ research_progress' = 25
    /\ progress_trace' = Append(progress_trace, 25)
    /\ tool_ret' = None
    /\ last_call' = None
    /\ pc' = "sleep"
    /\ UNCHANGED <<collected_facts, research_started, research_done,
                   report_result, user_topic, editor_result, progress_bar,
                   report_panel, tool_calls, triage_calls, editor_calls,
                   observed, prior, last_validation>>

\* The triage call returns another agent's output: progress 25, then
\* rendering research_plan.topic raises and the script run ends.
TriageReturnOther(out) ==
    /\ pc = "triage"
    /\ plan_result' = Some(out)
    /\ research_progress' = 25
    /\ progress_trace' = Append(progress_trace, 25)
    /\ tool_ret' = None
    /\ last_call' = None
    /\ pc' = "render_failed"
    /\ UNCHANGED <<collected_facts, research_started, research_done,
                   report_result, user_topic, editor_result, progress_bar,
                   report_panel, tool_calls, triage_calls, editor_calls,
                   observed, prior, last_validation>>

TriageRaiseRetry ==
    /\ pc = "triage"
    /\ tool_ret' = None
    /\ last_call' = None
    /\ triage_calls' = triage_calls + 1
    /\ pc' = "triage"
    /\ UNCHANGED <<session, user_topic, plan_result, editor_result,
                   progress_bar, report_panel, tool_calls, editor_calls,
                   progress_trace, observed, prior, last_validation>>

\* The triage call raises: the exception ends the script run.
TriageRaise ==
    /\ pc = "triage"
    /\ tool_ret' = None
    /\ last_call' = None
    /\ pc' = "triage_failed"
    /\ UNCHANGED <<session, user_topic, plan_result, editor_result,
                   progress_bar, report_panel, tool_calls, triage_calls,
                   editor_calls, progress_trace, observed, prior,
                   last_validation>>

\* asyncio.sleep(1.5) ends: progress 50 and the editor call is issued.
SleepDone ==
    /\ pc = "sleep"
    /\ research_progress' = 50
    /\ progress_trace' = Append(progress_trace, 50)
    /\ editor_calls' = editor_calls + 1
    /\ pc' = "editor"
    /\ UNCHANGED <<collected_facts, research_started, research_done,
                   report_result, user_topic, plan_result, editor_result,
                   progress_bar, report_panel, tool_ret, last_call,
                   tool_calls, triage_calls, observed, prior, last_validation>>

EditorReturnKeepsProgress(raw) ==
    /\ pc = "editor"
    /\ ValidWordCount(raw.word_count)
    /\ last_validation' = Some([input |-> raw.word_count, ok |-> TRUE])
    /\ editor_result' = Some(raw)
    /\ report_result' = Some(raw)
    /\ research_done' = TRUE
    /\ report_panel' = DisplayReport(TRUE, Some(raw))
    /\ pc' = "done"
    /\ UNCHANGED <<collected_facts, research_started, research_progress,
                   progress_trace, user_topic, plan_result, progress_bar,
                   tool_ret, last_call, tool_calls, triage_calls,
                   editor_calls, observed, prior>>

\* The editor call returns a report that passes validation: the state is
\* completed and the script goes on to the display block.
EditorReturn(raw) ==
    /\ pc = "editor"
    /\ ValidWordCount(raw.word_count)
    /\ last_validation' = Some([input |-> raw.word_count, ok |-> TRUE])
    /\ editor_result' = Some(raw)
    /\ report_result' = Some(raw)
    /\ research_done' = TRUE
    /\ research_progress' = 100
    /\ progress_trace' = Append(progress_trace, 100)
    /\ report_panel' = DisplayReport(TRUE, Some(raw))
    /\ pc' = "done"
    /\ UNCHANGED <<collected_facts, research_started, user_topic, plan_result,
                   progress_bar, tool_ret, last_call, tool_calls,
                   triage_calls, editor_calls, observed, prior>>

\* The editor's output fails ResearchReport validation: the call raises.
EditorOutputInvalid(raw) ==
    /\ pc = "editor"
    /\ ~ValidWordCount(raw.word_count)
    /\ last_validation' = Some([input |-> raw.word_count, ok |-> FALSE])
    /\ pc' = "editor_failed"
    /\ UNCHANGED <<session, user_topic, plan_result, editor_result,
                   progress_bar, report_panel, tool_ret, last_call,
                   tool_calls, triage_calls, editor_calls, progress_trace,
                   observed, prior>>

EditorRaiseSwallowed ==
    /\ pc = "editor"
    /\ research_done' = TRUE
    /\ research_progress' = 100
    /\ progress_trace' = Append(progress_trace, 100)
    /\ pc' = "editor_failed"
    /\ UNCHANGED <<collected_facts, research_started, report_result,
                   user_topic, plan_result, editor_result, progress_bar,
                   report_panel, tool_ret, last_call, tool_calls,
                   triage_calls, editor_calls, observed, prior,
                   last_validation>>

\* The editor call raises for any other reason.
EditorRaise ==
    /\ pc = "editor"
    /\ pc' = "editor_failed"
    /\ UNCHANGED <<session, user_topic, plan_result, editor_result,
                   progress_bar, report_panel, tool_ret, last_call,
                   tool_calls, triage_calls, editor_calls, progress_trace,
                   observed, prior, last_validation>>

Next ==
    \/ \E topic \in Topics : Rerun(topic)
    \/ StartRun
    \/ \E fact \in FactTexts, source \in Sources, now \in ClockReadings :
          save_important_fact(fact, source, now)
    \/ \E plan \in PlanOutputs : TriageReturn(plan)
    \/ \E out \in OtherOutputs : TriageReturnOther(out)
    \/ TriageRaise
    \/ SleepDone
    \/ \E raw \in RawReports : EditorReturn(raw)
    \/ \E raw \in RawReports : EditorOutputInvalid(raw)
    \/ EditorRaise

Spec == Init /\ [][Next]_vars

\* Both external calls return what the driver expects, and return eventually.
NextOK ==
    \/ \E topic \in Topics : Rerun(topic)
    \/ StartRun
    \/ \E fact \in FactTexts, source \in Sources, now \in ClockReadings :
          save_important_fact(fact, source, now)
    \/ \E plan \in PlanOutputs : TriageReturn(plan)
    \/ SleepDone
    \/ \E raw \in RawReports : EditorReturn(raw)

FairSpec ==
    /\ Init
    /\ [][NextOK]_vars
    /\ WF_vars(\E plan \in PlanOutputs : TriageReturn(plan))
    /\ WF_vars(SleepDone)
    /\ WF_vars(\E raw \in RawReports : EditorReturn(raw))

(* ------------------------------------------------------------------ *)
(* Properties                                                          *)
(* ------------------------------------------------------------------ *)

\* A step that is a call of the tool with the given arguments.
IsSaveCall(fact, source) ==
    /\ tool_calls' = tool_calls + 1
    /\ last_call' = Some([fact |-> fact, source |-> source])

\* C1: in every reachable state no two records of collected_facts carry the
\* same fact text, texts being compared exactly (case-sensitively).
C1_NoDuplicateFacts ==
    \A i, j \in 1 .. Len(collected_facts) :
        i # j => collected_facts[i].fact # collected_facts[j].fact

\* A duplicate was just refused while texts differing only in case are both kept.
C1_Witness ==
    /\ tool_ret = WARNING
    /\ HasFact(collected_facts, <<"a">>)
    /\ HasFact(collected_facts, <<"A">>)

\* C2: a call whose fact text is already stored returns the warning and
\* leaves collected_facts exactly as it was, whatever source it supplies.
C2_DuplicateLeavesListUnchanged ==
    [][\A fact \in FactTexts, source \in Sources :
         (IsSaveCall(fact, source) /\ HasFact(collected_facts, fact))
            => (tool_ret' = WARNING /\ collected_facts' = collected_facts)]_vars

\* A duplicate was refused although it came with a different, non-empty source.
C2_Witness ==
    /\ tool_ret = WARNING
    /\ last_call # None
    /\ last_call[1].source \in {Some("src1"), Some("src2")}
    /\ \E i \in 1 .. Len(collected_facts) :
          /\ collected_facts[i].fact = last_call[1].fact
          /\ collected_facts[i].source # last_call[1].source[1]
          /\ collected_facts[i].source # NOT_SPECIFIED

\* The effect of a call with a new fact text, given the source it must store.
AppendsRecord(fact, stored) ==
    /\ Len(collected_facts') = Len(collected_facts) + 1
    /\ SubSeq(collected_facts', 1, Len(collected_facts)) = collected_facts
    /\ collected_facts'[Len(collected_facts')].fact = fact
    /\ collected_facts'[Len(collected_facts')].source = stored
    /\ tool_ret' = Confirmation(fact)

\* C3 as stated: a call with a new fact text appends one record at the end,
\* leaves the earlier records alone, stores the given source, or "Not
\* specified" when no source was given, and returns the confirmation.
C3_AppendStoresGivenSource ==
    [][\A fact \in FactTexts, source \in Sources :
         (IsSaveCall(fact, source) /\ ~HasFact(collected_facts, fact))
            => AppendsRecord(fact, IF source = None THEN NOT_SPECIFIED
                                                    ELSE source[1])]_vars

\* C3 amended: as above, but "Not specified" is stored when no source was
\* given or when the given source is the empty string.
C3_AppendStoresSourceOrDefault ==
    [][\A fact \in FactTexts, source \in Sources :
         (IsSaveCall(fact, source) /\ ~HasFact(collected_facts, fact))
            => AppendsRecord(fact, IF source = None \/ source = Some("")
                                   THEN NOT_SPECIFIED ELSE source[1])]_vars

\* A record was just appended behind an earlier one; one of the two came
\* with a source and the other with the placeholder.
C3_Witness ==
    /\ Len(collected_facts) >= 2
    /\ last_call # None
    /\ tool_ret = Confirmation(last_call[1].fact)
    /\ collected_facts[Len(collected_facts)].fact = last_call[1].fact
    /\ last_call[1].source = Some("")
    /\ collected_facts[Len(collected_facts)].source = NOT_SPECIFIED
    /\ collected_facts[1].source = "src1"

\* C4: across a run in which both external calls succeed, the progress value
\* the UI shows goes through exactly 0, 25, 50, 100.
C4_UIProgressSequence ==
    research_done => observed = <<0, 25, 50, 100>>

\* C5: when the triage call is issued, before any tool call of the run, the
\* fact list is empty, no report is stored, progress is 0 and the run is not
\* done, whatever state the run started from.
C5_ResetBeforeTriage ==
    (pc = "triage" /\ tool_calls = 0) =>
        /\ collected_facts = <<>>
        /\ report_result = None
        /\ research_progress = 0
        /\ research_done = FALSE

\* A run was started from a completed run that had facts and a report.
C5_Witness ==
    /\ pc = "triage"
    /\ tool_calls = 0
    /\ prior # None
    /\ prior[1].facts
    /\ prior[1].report
    /\ prior[1].progress = 100
    /\ prior[1].done

\* What a failed external call leaves behind.
FailedState ==
    /\ pc = "triage_failed" =>
          /\ research_progress = 0
          /\ progress_trace = <<0>>
          /\ editor_calls = 0
    /\ pc = "editor_failed" =>
          /\ research_progress = 50
          /\ progress_trace = <<0, 25, 50>>
    /\ pc \in {"triage_failed", "editor_failed"} =>
          /\ research_progress < 100
          /\ research_done = FALSE
          /\ report_result = None

\* A failed run stays as it is until the next run starts.
FailurePersists ==
    pc \in {"triage_failed", "editor_failed"} =>
        \/ (pc' = pc /\ UNCHANGED <<session, progress_trace, triage_calls,
                                    editor_calls>>)
        \/ (pc' = "triage" /\ tool_calls' = 0)

\* C6: a run whose triage or editor call raised executes no later step and
\* leaves progress below 100 (0 after triage, 50 after the editor), done
\* false and no report; that state stays until the next run start.
C6_FailureLeavesRunIncomplete ==
    []FailedState /\ [][FailurePersists]_vars

\* The editor call of a second run failed, and the page was redrawn since.
C6_Witness ==
    /\ pc = "editor_failed"
    /\ prior # None
    /\ prior[1].done
    /\ progress_bar = 50

\* C7: ResearchReport accepts a word_count exactly when it is >= 1, so a
\* stored report always has a positive word_count.
C7_WordCountPositive ==
    /\ last_validation # None =>
          (last_validation[1].ok <=> last_validation[1].input >= 1)
    /\ report_result # None => report_result[1].word_count > 0

\* A word_count of 0 was rejected.
C7_Witness ==
    /\ last_validation # None
    /\ last_validation[1].input = 0
    /\ ~last_validation[1].ok
    /\ report_result = None

\* C8: within a run the triage call is issued exactly once and the editor
\* call at most once, and the editor call only after the triage call has
\* returned and progress went 0, 25, 50.
C8_LinearRun ==
    /\ pc # "idle" => triage_calls = 1
    /\ editor_calls <= 1
    /\ editor_calls = 1 =>
          /\ plan_result # None
          /\ Len(progress_trace) >= 3
          /\ SubSeq(progress_trace, 1, 3) = <<0, 25, 50>>
    /\ pc \in {"triage", "sleep", "triage_failed", "render_failed"} =>
          editor_calls = 0

\* The editor call failed and was not issued again.
C8_Witness ==
    /\ pc = "editor_failed"
    /\ editor_calls = 1
    /\ triage_calls = 1

Completed ==
    /\ pc = "done"
    /\ research_progress = 100
    /\ research_done
    /\ report_result # None
    /\ report_result = editor_result

\* A run completes only by its editor call returning, and while a call is
\* in flight no step cancels or restarts the run or redraws the page.
NoEscape ==
    /\ (research_done' /\ ~research_done) => (pc = "editor" /\ Completed')
    /\ pc \in Running =>
          /\ pc' # "idle"
          /\ (pc' = "triage" => pc = "triage")
          /\ UNCHANGED <<user_topic, progress_bar>>

\* C9: when both external calls return successfully, every started run
\* completes; a run completes only by the editor call returning, and while a
\* call is in flight nothing cancels or restarts the run.
C9_RunCompletes ==
    ((pc = "triage") ~> Completed) /\ [][NoEscape]_vars

\* A second run completed.
C9_Witness ==
    /\ Completed
    /\ prior # None
    /\ prior[1].done

\* C10: research_done holds only with a stored report and progress 100, the
\* report being the editor output of the latest run; the report panel shows
\* nothing but that report.
C10_DoneImpliesReport ==
    /\ research_done =>
          /\ report_result # None
          /\ research_progress = 100
          /\ report_result = editor_result
          /\ pc = "done"
    /\ report_panel # None => (research_done /\ report_panel = report_result)

\* A new run is under way after a completed one: nothing is marked done.
C10_Witness ==
    /\ pc \in Running
    /\ prior # None
    /\ prior[1].done
    /\ ~research_done
    /\ report_panel = None

====
